---- MODULE Spec2Model ----
(***************************************************************************)
(* A model of init.py, the project-scaffolding script: main() parses the   *)
(* command line, constructs a Runner (PoetryRunner or SetuptoolsRunner),   *)
(* asks for confirmation and calls runner.run(), which executes the        *)
(* stages in a fixed order.  The state is the filesystem below the project *)
(* root, the process-wide working directory, the Runner's attributes and   *)
(* the position of the single thread of control.  External tools (git,     *)
(* poetry, pip, venv) are inputs: their exit status is chosen              *)
(* nondeterministically.  Several invocations may follow one another on    *)
(* the same filesystem.                                                    *)
(***************************************************************************)
EXTENDS Integers, Sequences, FiniteSets, TLC

VARIABLES
    template,     \* the content of pyproject.setuptools.toml beside the script
    cmd,          \* the command line: project_name, description, build_system
    runs,         \* invocations of the script started so far
    pc,           \* "main" (no invocation running) | "construct" | "prompt" | "run" | "exited"
    runner,       \* the Runner's attributes once constructed
    force,        \* args.force of this invocation
    no_git,       \* args.no_git of this invocation
    answer,       \* what the user typed at the prompt
    stage,        \* index of the next stage of runner.run()
    fs,           \* the filesystem: the project root and the paths below it
    fs0,          \* the filesystem when this invocation started
    layouts,      \* how many times _2_create_src_dir has returned on this filesystem
    cwd,          \* the process-wide working directory
    log,          \* the stages and processes this invocation has executed
    error,        \* the exception that ended the invocation, or "none"
    exit_status   \* the exit status of the invocation; NoStatus while it runs

vars == <<template, cmd, runs, pc, runner, force, no_git, answer, stage, fs, fs0, layouts,
          cwd, log, error, exit_status>>

(***************************************************************************)
(* Bounds.                                                                 *)
(***************************************************************************)
MaxRuns == 2
MaxNameLen == 3

\* exit_status while the invocation has not ended.
NoStatus == 0 - 1

(***************************************************************************)
(* Strings are sequences of one-character strings, so that the regular     *)
(* expression, str.replace and str.lower are computed character by         *)
(* character.                                                              *)
(***************************************************************************)
Letters == {"a", "Z", "n", "N", "o", "y", "Y", "b"}
Digits == {"0"}
NameClass == Letters \cup Digits \cup {"-", "_"}

\* A validation that lets every non-empty name through.
NameMatches_any(s) == s # <<>>

\* re.match(r"^[a-zA-Z0-9\-_]+$", s): one or more characters of the class from
\* the start, then "$", which matches at the end of the string and also just
\* before a newline that is the last character of the string.
NameMatches(s) ==
    \E k \in 1..Len(s) :
        /\ \A i \in 1..k : s[i] \in NameClass
        /\ \/ k = Len(s)
           \/ k = Len(s) - 1 /\ s[Len(s)] = "\n"

\* str.replace(old, new) for a one-character old and new.
ReplaceChar(s, old, new) ==
    [i \in 1..Len(s) |-> IF s[i] = old THEN new ELSE s[i]]

\* str.lower() on the alphabet of the model.
LowerChar(c) ==
    CASE c = "N" -> "n"
      [] c = "Y" -> "y"
      [] c = "Z" -> "z"
      [] OTHER -> c

Lower(s) == [i \in 1..Len(s) |-> LowerChar(s[i])]

(***************************************************************************)
(* The filesystem.  Paths are relative to project_root_path; "." is the    *)
(* root itself, PKG stands for src/<project_name_camelcase>.               *)
(***************************************************************************)
ROOT == "."
README == "README.md"
SRC == "src"
PKG == "src/<pkg>"
MARKER == "src/<pkg>/__init__.py"
PYPROJECT == "pyproject.toml"
VENV == ".venv"
GIT == ".git"

RunnerBaseFilenames == <<".flake8", ".gitignore", "LICENSE", ".editorconfig">>
PoetryBaseFilenames ==
    <<".flake8", ".gitignore", "LICENSE", ".editorconfig", "poetry.toml">>

base_filenames(build_system) ==
    IF build_system = "poetry" THEN PoetryBaseFilenames ELSE RunnerBaseFilenames

StaticNames == {PoetryBaseFilenames[i] : i \in 1..Len(PoetryBaseFilenames)}

\* dst/<basename of src>: where shutil.copy writes when dst is a directory.
Inside(name) == name \o "/" \o name

Paths ==
    {ROOT, README, SRC, PKG, MARKER, PYPROJECT, VENV, GIT}
        \cup StaticNames \cup {Inside(n) : n \in StaticNames}

Parent(p) ==
    CASE p = PKG -> SRC
      [] p = MARKER -> PKG
      [] \E n \in StaticNames : p = Inside(n) ->
             CHOOSE n \in StaticNames : p = Inside(n)
      [] OTHER -> ROOT

Absent == [kind |-> "absent", content |-> <<>>]
Dir == [kind |-> "dir", content |-> <<>>]
File(content) == [kind |-> "file", content |-> content]

exists(f, p) == f[p].kind # "absent"
is_dir(f, p) == f[p].kind = "dir"

EmptyFs == [p \in Paths |-> Absent]

RECURSIVE Ancestors(_)
Ancestors(p) ==
    IF p = ROOT THEN {} ELSE {Parent(p)} \cup Ancestors(Parent(p))

\* A root directory holding one pre-existing entry (and the directories above it).
FsWith(p, entry) ==
    [q \in Paths |->
        IF q = p THEN entry
        ELSE IF q \in Ancestors(p) THEN Dir
        ELSE Absent]

OldContent == <<"old">>

PreExisting ==
    {EmptyFs, FsWith(ROOT, File(OldContent)), FsWith(ROOT, Dir)}
        \cup {FsWith(p, e) : p \in Paths \ {ROOT, GIT}, e \in {File(OldContent), Dir}}

(***************************************************************************)
(* The command lines the model runs.                                       *)
(***************************************************************************)
Projects ==
    { [project_name |-> <<"a", "-", "b">>, description |-> <<"A", " ", "t">>],
      [project_name |-> <<"Z", "0">>, description |-> <<>>],
      [project_name |-> <<"a", "b", "\n">>, description |-> <<>>],
      [project_name |-> <<"b", "a", "d", " ", "n", "!">>, description |-> <<"A", " ", "t">>],
      [project_name |-> <<>>, description |-> <<>>] }
BuildSystems == {"poetry", "setuptools"}
Answers == { <<"y">>, <<"n">>, <<"N">>, <<"n", "o">> }

CommandLine(project, build_system) ==
    [project_name |-> project.project_name, description |-> project.description,
     build_system |-> build_system]

\* Every name of at most MaxNameLen characters over NameAlphabet.
NameAlphabet == {"a", "Z", "0", "-", "_", " ", "!", "/", ".", "\n"}
AllNames == UNION {[1..n -> NameAlphabet] : n \in 0..MaxNameLen}

\* The two manifest templates beside the script.  A file's content is a
\* sequence of chunks; a placeholder and a line break are chunks of their own.
SetuptoolsTemplate ==
    <<"[project]", "\n",
      "name = \"", "{{project_name}}", "\"", "\n",
      "description = \"", "{{description}}", "\"", "\n",
      "[project.optional-dependencies]", "\n">>
BaseTemplate == <<"[tool.pylint]", "\n", "[tool.isort]", "\n">>

(***************************************************************************)
(* pathlib.  A path is the sequence of its components, the anchor "/"      *)
(* first; a component is a sequence of characters.                         *)
(***************************************************************************)
Anchor == <<"/">>

\* What pathlib keeps of a component: empty ones and "." are dropped.
Component(c) == IF c = <<>> \/ c = <<".">> THEN <<>> ELSE <<c>>

\* The components of the string s, cur being the one under construction.
RECURSIVE SplitPath(_, _)
SplitPath(s, cur) ==
    IF s = <<>> THEN Component(cur)
    ELSE IF Head(s) = "/" THEN Component(cur) \o SplitPath(Tail(s), <<>>)
    ELSE SplitPath(Tail(s), Append(cur, Head(s)))

is_absolute(s) == s # <<>> /\ Head(s) = "/"

\* base / s: an absolute s replaces base.
joinpath(base, s) ==
    IF is_absolute(s) THEN <<Anchor>> \o SplitPath(s, <<>>)
    ELSE base \o SplitPath(s, <<>>)

\* The working directory the script is started in, and Path(s).absolute().
Cwd == <<Anchor, <<"w">>>>
absolute(s) == joinpath(Cwd, s)

NoRunner == [project_name |-> <<>>, project_name_camelcase |-> <<>>,
             project_root_path |-> <<>>, project_python_path |-> <<>>,
             description |-> <<>>, class |-> "none"]

Init ==
    /\ template = SetuptoolsTemplate
    /\ cmd \in {CommandLine(p, b) : p \in Projects, b \in BuildSystems}
    /\ fs \in PreExisting
    /\ fs0 = fs
    /\ layouts = 0
    /\ runs = 0
    /\ pc = "main"
    /\ runner = NoRunner
    /\ force = FALSE
    /\ no_git = FALSE
    /\ answer = <<>>
    /\ stage = 0
    /\ cwd = "cwd0"
    /\ log = <<>>
    /\ error = "none"
    /\ exit_status = NoStatus

(***************************************************************************)
(* Runner.run and its overrides: the stages in the order they are called.  *)
(***************************************************************************)
\* Runner.run with git init called before the boilerplate files are copied.
RunnerRun_git_before_copy(ng) ==
    <<"_1_create_project_dir", "_2_write_readme", "_2_create_src_dir">>
        \o (IF ng THEN <<>> ELSE <<"_2_init_git">>) \o <<"_2_copy_base_files">>

\* Runner.run with the boilerplate files copied before the source tree is made.
RunnerRun_copy_before_src(ng) ==
    <<"_1_create_project_dir", "_2_write_readme", "_2_copy_base_files",
      "_2_create_src_dir">> \o (IF ng THEN <<>> ELSE <<"_2_init_git">>)

\* Runner.run with git init called whatever no_git says.
RunnerRun_git_always(ng) ==
    <<"_1_create_project_dir", "_2_write_readme", "_2_create_src_dir",
      "_2_copy_base_files", "_2_init_git">>

RunnerRun(ng) ==
    <<"_1_create_project_dir", "_2_write_readme", "_2_create_src_dir",
      "_2_copy_base_files">> \o (IF ng THEN <<>> ELSE <<"_2_init_git">>)

SetuptoolsRun(ng) ==
    RunnerRun(ng) \o <<"_2_copy_pyproject_toml", "_2_create_venv", "_3_run_pip_install">>

\* PoetryRunner.run with poetry sync called before the base template is appended.
PoetryRun_sync_before_update(ng) ==
    RunnerRun(ng) \o <<"_3_init_poetry", "_4_sync_poetry", "_4_update_pyproject_toml">>

PoetryRun(ng) ==
    RunnerRun(ng) \o <<"_3_init_poetry", "_4_update_pyproject_toml", "_4_sync_poetry">>

run(class, ng) ==
    IF class = "PoetryRunner" THEN PoetryRun(ng) ELSE SetuptoolsRun(ng)

Stages == run(runner.class, no_git)

AtStage(name) ==
    /\ pc = "run"
    /\ stage \in 1..Len(Stages)
    /\ Stages[stage] = name

\* Only git init changes the working directory; the later stages count on it.
ChdirStages_git_only == {"_2_init_git"}

\* The stages that call chdir(self.project_root_path) before they launch a process.
ChdirStages ==
    {"_2_init_git", "_2_create_venv", "_3_run_pip_install", "_3_init_poetry",
     "_4_sync_poetry"}

\* The working directory in which the stage does its work.
WorkingDirectory(name) == IF name \in ChdirStages THEN ROOT ELSE cwd

\* What a stage leaves in the log: its outcome, whether it set the working
\* directory itself, and the working directory it worked in.
Entry(name, outcome, dir) ==
    [stage |-> name, outcome |-> outcome, chdir |-> name \in ChdirStages, cwd |-> dir]

\* The stage returns: run() calls the next one, or main() returns and the
\* interpreter exits with status 0.
Returns(name, outcome) ==
    /\ log' = Append(log, Entry(name, outcome, cwd'))
    /\ error' = error
    /\ IF stage = Len(Stages)
       THEN pc' = "exited" /\ exit_status' = 0 /\ stage' = stage
       ELSE pc' = "run" /\ exit_status' = exit_status /\ stage' = stage + 1

\* The stage raises: nothing catches the exception, the interpreter prints the
\* traceback and exits with status 1.
Raises(name, exc) ==
    /\ log' = Append(log, Entry(name, "raised", cwd'))
    /\ error' = exc
    /\ pc' = "exited"
    /\ exit_status' = 1
    /\ stage' = stage

(***************************************************************************)
(* main()                                                                  *)
(***************************************************************************)
\* parser.parse_args(): a new invocation of the script starts.
Main ==
    /\ pc \in {"main", "exited"}
    /\ runs < MaxRuns
    /\ runs' = runs + 1
    /\ \E f \in BOOLEAN, ng \in BOOLEAN : force' = f /\ no_git' = ng
    /\ pc' = "construct"
    /\ runner' = NoRunner
    /\ answer' = <<>>
    /\ stage' = 0
    /\ fs0' = fs
    /\ cwd' = "cwd0"
    /\ log' = <<>>
    /\ error' = "none"
    /\ exit_status' = NoStatus
    /\ UNCHANGED <<template, cmd, fs, layouts>>

\* Runner.__init__, called as runner_class(project_path, project_name, description).
Construct ==
    /\ pc = "construct"
    /\ IF ~NameMatches(cmd.project_name)
       THEN /\ error' = "ValueError: project name"
            /\ pc' = "exited"
            /\ exit_status' = 1
            /\ runner' = runner
       ELSE /\ runner' = [project_name |-> cmd.project_name,
                          project_name_camelcase |->
                              ReplaceChar(cmd.project_name, "-", "_"),
                          project_root_path |-> absolute(cmd.project_name),
                          project_python_path |->
                              joinpath(joinpath(absolute(cmd.project_name),
                                                <<"s", "r", "c">>),
                                       ReplaceChar(cmd.project_name, "-", "_")),
                          description |-> cmd.description,
                          class |-> IF cmd.build_system = "poetry"
                                    THEN "PoetryRunner" ELSE "SetuptoolsRunner"]
            /\ pc' = "prompt"
            /\ UNCHANGED <<error, exit_status>>
    /\ UNCHANGED <<template, cmd, runs, force, no_git, answer, stage, fs, fs0, layouts, cwd, log>>

\* input(prompt).lower() != "n"
Confirmed(a) == Lower(a) # <<"n">>

Prompt ==
    /\ pc = "prompt"
    /\ \E a \in Answers :
        /\ answer' = a
        /\ IF Confirmed(a)
           THEN pc' = "run" /\ stage' = 1 /\ exit_status' = exit_status
           ELSE pc' = "exited" /\ stage' = stage /\ exit_status' = 0
    /\ UNCHANGED <<template, cmd, runs, runner, force, no_git, fs, fs0, layouts, cwd, log, error>>

(***************************************************************************)
(* The stages of Runner.                                                   *)
(***************************************************************************)
\* _1_create_project_dir without the test of force on an existing directory.
create_project_dir_reuses(f, frc) ==
    IF exists(f, ROOT)
    THEN IF ~is_dir(f, ROOT) THEN [fs |-> f, err |-> "ValueError: not a directory"]
         ELSE [fs |-> f, err |-> "none"]
    ELSE [fs |-> [f EXCEPT ![ROOT] = Dir], err |-> "none"]

\* _1_create_project_dir with force tested first, so that it also lets a
\* non-directory pass.
create_project_dir_force_first(f, frc) ==
    IF exists(f, ROOT)
    THEN IF frc THEN [fs |-> f, err |-> "none"]
         ELSE IF ~is_dir(f, ROOT) THEN [fs |-> f, err |-> "ValueError: not a directory"]
         ELSE [fs |-> f, err |-> "ValueError: already exists"]
    ELSE [fs |-> [f EXCEPT ![ROOT] = Dir], err |-> "none"]

\* The body of Runner._1_create_project_dir: the filesystem after it, and the
\* exception it raised.
create_project_dir(f, frc) ==
    IF exists(f, ROOT)
    THEN IF ~is_dir(f, ROOT) THEN [fs |-> f, err |-> "ValueError: not a directory"]
         ELSE IF ~frc THEN [fs |-> f, err |-> "ValueError: already exists"]
         ELSE [fs |-> f, err |-> "none"]
    ELSE [fs |-> [f EXCEPT ![ROOT] = Dir], err |-> "none"]

_1_create_project_dir ==
    /\ AtStage("_1_create_project_dir")
    /\ cwd' = WorkingDirectory("_1_create_project_dir")
    /\ LET made == create_project_dir(fs, force) IN
       /\ fs' = made.fs
       /\ IF made.err # "none"
          THEN Raises("_1_create_project_dir", made.err)
          ELSE Returns("_1_create_project_dir", "ok")
    /\ UNCHANGED <<template, cmd, runs, runner, force, no_git, answer, fs0, layouts>>

\* The README with the description written straight after the heading.
ReadmeText_no_newline(r) ==
    <<"#", " ">> \o r.project_name \o r.description

ReadmeText(r) ==
    <<"#", " ">> \o r.project_name
        \o (IF r.description # <<>> THEN <<"\n">> \o r.description ELSE <<>>)

_2_write_readme ==
    /\ AtStage("_2_write_readme")
    /\ cwd' = WorkingDirectory("_2_write_readme")
    /\ IF is_dir(fs, README)
       THEN /\ fs' = fs
            /\ Raises("_2_write_readme", "IsADirectoryError")
       ELSE /\ fs' = [fs EXCEPT ![README] = File(ReadmeText(runner))]
            /\ Returns("_2_write_readme", "ok")
    /\ UNCHANGED <<template, cmd, runs, runner, force, no_git, answer, fs0, layouts>>

\* Path.mkdir(parents=True) without exist_ok: an existing src/<pkg> raises.
mkdir_parents_only(f) ==
    IF exists(f, PKG) THEN [fs |-> f, err |-> "FileExistsError"]
    ELSE IF is_dir(f, SRC) THEN [fs |-> [f EXCEPT ![PKG] = Dir], err |-> "none"]
    ELSE IF exists(f, SRC) THEN [fs |-> f, err |-> "NotADirectoryError"]
    ELSE [fs |-> [f EXCEPT ![SRC] = Dir, ![PKG] = Dir], err |-> "none"]

\* Path.mkdir(parents=True, exist_ok=True) on src/<pkg>: the filesystem after
\* it, and whether it raised.
mkdir_parents_exist_ok(f) ==
    IF is_dir(f, PKG) THEN [fs |-> f, err |-> "none"]
    ELSE IF exists(f, PKG) THEN [fs |-> f, err |-> "FileExistsError"]
    ELSE IF is_dir(f, SRC) THEN [fs |-> [f EXCEPT ![PKG] = Dir], err |-> "none"]
    ELSE IF exists(f, SRC) THEN [fs |-> f, err |-> "NotADirectoryError"]
    ELSE [fs |-> [f EXCEPT ![SRC] = Dir, ![PKG] = Dir], err |-> "none"]

\* The marker opened for writing instead of touched: an existing file is truncated.
touch_truncates(f, p) ==
    IF is_dir(f, p) THEN f ELSE [f EXCEPT ![p] = File(<<>>)]

\* Path.touch(): os.utime on a path that exists, an empty file created otherwise.
touch(f, p) ==
    IF exists(f, p) THEN f ELSE [f EXCEPT ![p] = File(<<>>)]

_2_create_src_dir ==
    /\ AtStage("_2_create_src_dir")
    /\ cwd' = WorkingDirectory("_2_create_src_dir")
    /\ LET made == mkdir_parents_exist_ok(fs) IN
       IF made.err # "none"
       THEN /\ fs' = made.fs
            /\ Raises("_2_create_src_dir", made.err)
       ELSE /\ fs' = touch(made.fs, MARKER)
            /\ Returns("_2_create_src_dir", "ok")
    /\ layouts' = IF mkdir_parents_exist_ok(fs).err = "none" THEN layouts + 1 ELSE layouts
    /\ UNCHANGED <<template, cmd, runs, runner, force, no_git, answer, fs0>>

\* The bytes of the boilerplate file of that name beside the script.
SourceFile(name) == <<name>>

\* shutil.copy(src, dst): into dst when dst is a directory, over dst otherwise.
shutil_copy(f, name) ==
    IF is_dir(f, name)
    THEN IF is_dir(f, Inside(name))
         THEN [fs |-> f, err |-> "IsADirectoryError"]
         ELSE [fs |-> [f EXCEPT ![Inside(name)] = File(SourceFile(name))],
               err |-> "none"]
    ELSE [fs |-> [f EXCEPT ![name] = File(SourceFile(name))], err |-> "none"]

\* for filename in self.base_filenames: shutil.copy(...), from the i-th on.
RECURSIVE copy_from(_, _, _)
copy_from(f, names, i) ==
    IF i > Len(names) THEN [fs |-> f, err |-> "none"]
    ELSE LET one == shutil_copy(f, names[i]) IN
         IF one.err # "none" THEN one ELSE copy_from(one.fs, names, i + 1)

_2_copy_base_files ==
    /\ AtStage("_2_copy_base_files")
    /\ cwd' = WorkingDirectory("_2_copy_base_files")
    /\ LET copied == copy_from(fs, base_filenames(cmd.build_system), 1) IN
       /\ fs' = copied.fs
       /\ IF copied.err # "none"
          THEN Raises("_2_copy_base_files", copied.err)
          ELSE Returns("_2_copy_base_files", "ok")
    /\ UNCHANGED <<template, cmd, runs, runner, force, no_git, answer, fs0, layouts>>

\* The exit statuses an external process may end with.
ExitCodes == {0, 1}

_2_init_git ==
    /\ AtStage("_2_init_git")
    /\ cwd' = WorkingDirectory("_2_init_git")
    /\ \E rc \in ExitCodes :
        IF rc = 0
        THEN /\ fs' = [fs EXCEPT ![GIT] = Dir]
             /\ Returns("_2_init_git", "ok")
        ELSE /\ fs' = fs
             /\ Raises("_2_init_git", "CalledProcessError")
    /\ UNCHANGED <<template, cmd, runs, runner, force, no_git, answer, fs0, layouts>>

(***************************************************************************)
(* The manifest.  A file's content is a sequence of chunks; the two        *)
(* templates beside the script are chunks with the placeholders as chunks  *)
(* of their own.                                                           *)
(***************************************************************************)
\* for line in infile: the lines of a content, each with its line break.
RECURSIVE SplitLines(_)
SplitLines(content) ==
    IF content = <<>> THEN <<>>
    ELSE IF \E i \in 1..Len(content) : content[i] = "\n"
    THEN LET k == CHOOSE i \in 1..Len(content) :
                      /\ content[i] = "\n"
                      /\ \A j \in 1..(i - 1) : content[j] # "\n"
         IN <<SubSeq(content, 1, k)>> \o SplitLines(SubSeq(content, k + 1, Len(content)))
    ELSE <<content>>

\* str.replace(old, new) on a line: every chunk old becomes the characters of new.
RECURSIVE replace(_, _, _)
replace(line, old, new) ==
    IF line = <<>> THEN <<>>
    ELSE (IF Head(line) = old THEN new ELSE <<Head(line)>>)
             \o replace(Tail(line), old, new)

\* line.replace("{{project_name}}", ...).replace("{{description}}", ...)
\* A line written with only the project name filled in.
RenderLine_name_only(line, r) ==
    replace(line, "{{project_name}}", r.project_name)

RenderLine(line, r) ==
    replace(replace(line, "{{project_name}}", r.project_name),
            "{{description}}", r.description)

\* for line in infile: outfile.write(line.replace(...).replace(...))
RECURSIVE WriteLines(_, _)
WriteLines(lines, r) ==
    IF lines = <<>> THEN <<>>
    ELSE RenderLine(Head(lines), r) \o WriteLines(Tail(lines), r)

Render(tpl, r) == WriteLines(SplitLines(tpl), r)

\* The append done on a manifest opened with "wt": what was there is lost.
_update_pyproject_toml_truncates(f, base_ok) ==
    IF is_dir(f, PYPROJECT) THEN [fs |-> f, err |-> "IsADirectoryError"]
    ELSE LET opened == [f EXCEPT ![PYPROJECT] = File(<<>>)]
         IN IF ~base_ok THEN [fs |-> opened, err |-> "FileNotFoundError"]
            ELSE [fs |-> [opened EXCEPT ![PYPROJECT] = File(<<"\n">> \o BaseTemplate)],
                  err |-> "none"]

\* Runner._update_pyproject_toml: open(..., "at"), then "\n" and the lines of
\* pyproject.base.toml; base_ok says whether that file can be read.
_update_pyproject_toml(f, base_ok) ==
    IF is_dir(f, PYPROJECT) THEN [fs |-> f, err |-> "IsADirectoryError"]
    ELSE LET opened == IF exists(f, PYPROJECT) THEN f
                       ELSE [f EXCEPT ![PYPROJECT] = File(<<>>)]
         IN IF ~base_ok THEN [fs |-> opened, err |-> "FileNotFoundError"]
            ELSE [fs |-> [opened EXCEPT ![PYPROJECT] =
                            File(opened[PYPROJECT].content \o <<"\n">> \o BaseTemplate)],
                  err |-> "none"]

(***************************************************************************)
(* The stages of SetuptoolsRunner.                                         *)
(***************************************************************************)
_2_copy_pyproject_toml ==
    /\ AtStage("_2_copy_pyproject_toml")
    /\ cwd' = WorkingDirectory("_2_copy_pyproject_toml")
    /\ \E template_ok \in BOOLEAN, base_ok \in BOOLEAN :
        IF is_dir(fs, PYPROJECT)
        THEN /\ fs' = fs
             /\ Raises("_2_copy_pyproject_toml", "IsADirectoryError")
        ELSE IF ~template_ok
        THEN /\ fs' = [fs EXCEPT ![PYPROJECT] = File(<<>>)]
             /\ Raises("_2_copy_pyproject_toml", "FileNotFoundError")
        ELSE LET written == [fs EXCEPT ![PYPROJECT] =
                                File(Render(template, runner))]
                 updated == _update_pyproject_toml(written, base_ok)
             IN /\ fs' = updated.fs
                /\ IF updated.err # "none"
                   THEN Raises("_2_copy_pyproject_toml", updated.err)
                   ELSE Returns("_2_copy_pyproject_toml", "ok")
    /\ UNCHANGED <<template, cmd, runs, runner, force, no_git, answer, fs0, layouts>>

\* venv.create(".venv", with_pip=True): the directories are made first, then
\* pip is bootstrapped in a child process, which may fail.
_2_create_venv ==
    /\ AtStage("_2_create_venv")
    /\ cwd' = WorkingDirectory("_2_create_venv")
    /\ IF fs[VENV].kind = "file"
       THEN /\ fs' = fs
            /\ Raises("_2_create_venv", "ValueError: unable to create directory")
       ELSE /\ fs' = [fs EXCEPT ![VENV] = Dir]
            /\ \E rc \in ExitCodes :
                IF rc = 0
                THEN Returns("_2_create_venv", "ok")
                ELSE Raises("_2_create_venv", "CalledProcessError")
    /\ UNCHANGED <<template, cmd, runs, runner, force, no_git, answer, fs0, layouts>>

\* pip install that removes the virtual environment again when it fails.
_3_run_pip_install_cleans_up ==
    /\ AtStage("_3_run_pip_install")
    /\ cwd' = WorkingDirectory("_3_run_pip_install")
    /\ \E rc \in ExitCodes :
        IF rc = 0
        THEN /\ fs' = fs
             /\ Returns("_3_run_pip_install", "ok")
        ELSE /\ fs' = [fs EXCEPT ![VENV] = Absent]
             /\ Raises("_3_run_pip_install", "CalledProcessError")
    /\ UNCHANGED <<template, cmd, runs, runner, force, no_git, answer, fs0, layouts>>

\* subprocess.run(". .venv/bin/activate && pip install -e .[dev]", check=True)
_3_run_pip_install ==
    /\ AtStage("_3_run_pip_install")
    /\ cwd' = WorkingDirectory("_3_run_pip_install")
    /\ fs' = fs
    /\ \E rc \in ExitCodes :
        IF rc = 0
        THEN Returns("_3_run_pip_install", "ok")
        ELSE Raises("_3_run_pip_install", "CalledProcessError")
    /\ UNCHANGED <<template, cmd, runs, runner, force, no_git, answer, fs0, layouts>>

(***************************************************************************)
(* The stages of PoetryRunner.  subprocess.call returns the exit status,   *)
(* and the stage drops it.                                                 *)
(***************************************************************************)
\* What "poetry init" writes for the project.
PoetryGenerated(r) ==
    <<"[tool.poetry]", "name = ">> \o r.project_name
        \o <<"description = ">> \o r.description

InSeq(x, seq) == \E i \in 1..Len(seq) : seq[i] = x

\* poetry init refuses a directory and a manifest that has a poetry section.
PoetryInitRefuses(f) ==
    \/ is_dir(f, PYPROJECT)
    \/ InSeq("[tool.poetry]", f[PYPROJECT].content)

\* What a stage that calls subprocess.call does with the exit status rc.
CallOutcome(rc) == IF rc = 0 THEN "ok" ELSE "nonzero"

_3_init_poetry ==
    /\ AtStage("_3_init_poetry")
    /\ cwd' = WorkingDirectory("_3_init_poetry")
    /\ \E rc \in ExitCodes :
        /\ rc = 0 => ~PoetryInitRefuses(fs)
        /\ fs' = IF rc = 0
                 THEN [fs EXCEPT ![PYPROJECT] =
                          File(fs[PYPROJECT].content \o PoetryGenerated(runner))]
                 ELSE fs
        /\ Returns("_3_init_poetry", CallOutcome(rc))
    /\ UNCHANGED <<template, cmd, runs, runner, force, no_git, answer, fs0, layouts>>

_4_update_pyproject_toml ==
    /\ AtStage("_4_update_pyproject_toml")
    /\ cwd' = WorkingDirectory("_4_update_pyproject_toml")
    /\ \E base_ok \in BOOLEAN :
        LET updated == _update_pyproject_toml(fs, base_ok) IN
        /\ fs' = updated.fs
        /\ IF updated.err # "none"
           THEN Raises("_4_update_pyproject_toml", updated.err)
           ELSE Returns("_4_update_pyproject_toml", "ok")
    /\ UNCHANGED <<template, cmd, runs, runner, force, no_git, answer, fs0, layouts>>

_4_sync_poetry ==
    /\ AtStage("_4_sync_poetry")
    /\ cwd' = WorkingDirectory("_4_sync_poetry")
    /\ fs' = fs
    /\ \E rc \in ExitCodes : Returns("_4_sync_poetry", CallOutcome(rc))
    /\ UNCHANGED <<template, cmd, runs, runner, force, no_git, answer, fs0, layouts>>

(***************************************************************************)
(* The environment: between two invocations the user may write into the    *)
(* package marker file.                                                    *)
(***************************************************************************)
EditMarker ==
    /\ pc = "exited"
    /\ runs < MaxRuns
    /\ fs[MARKER] = File(<<>>)
    /\ fs' = [fs EXCEPT ![MARKER] = File(OldContent)]
    /\ pc' = "main"
    /\ UNCHANGED <<template, cmd, runs, runner, force, no_git, answer, stage, fs0, layouts, cwd,
                   log, error, exit_status>>

(***************************************************************************)
(* The specification.                                                      *)
(***************************************************************************)
Next ==
    \/ Main
    \/ Construct
    \/ Prompt
    \/ _1_create_project_dir
    \/ _2_write_readme
    \/ _2_create_src_dir
    \/ _2_copy_base_files
    \/ _2_init_git
    \/ _2_copy_pyproject_toml
    \/ _2_create_venv
    \/ _3_run_pip_install
    \/ _3_init_poetry
    \/ _4_update_pyproject_toml
    \/ _4_sync_poetry
    \/ EditMarker

Spec == Init /\ [][Next]_vars

(***************************************************************************)
(* The constructor alone, on every name of the alphabet.                   *)
(***************************************************************************)
InitNames ==
    /\ template = SetuptoolsTemplate
    /\ cmd \in {CommandLine([project_name |-> n, description |-> <<>>], b) :
                    n \in AllNames, b \in BuildSystems}
    /\ fs = EmptyFs
    /\ fs0 = fs
    /\ layouts = 0
    /\ runs = 0
    /\ pc = "main"
    /\ runner = NoRunner
    /\ force = FALSE
    /\ no_git = FALSE
    /\ answer = <<>>
    /\ stage = 0
    /\ cwd = "cwd0"
    /\ log = <<>>
    /\ error = "none"
    /\ exit_status = NoStatus

NextNames == Main \/ Construct

SpecNames == InitNames /\ [][NextNames]_vars

(***************************************************************************)
(* Rendering as a function of the template: the Setuptools invocations run *)
(* on every template of at most MaxTemplateLines lines drawn from          *)
(* TemplateLines (section headers, key lines with and without a            *)
(* placeholder, a line with both placeholders), and on the default one.    *)
(***************************************************************************)
MaxTemplateLines == 2

TemplateLines ==
    { <<"[project]", "\n">>,
      <<"[tool.x]", "\n">>,
      <<"name = \"", "{{project_name}}", "\"", "\n">>,
      <<"description = \"", "{{description}}", "\"", "\n">>,
      <<"name = \"", "x", "\"", "\n">>,
      <<"url = \"", "{{project_name}}", "/", "{{description}}", "\"", "\n">> }

RECURSIVE Flatten(_)
Flatten(lines) ==
    IF lines = <<>> THEN <<>> ELSE Head(lines) \o Flatten(Tail(lines))

Templates ==
    {SetuptoolsTemplate}
        \cup {Flatten(ls) : ls \in UNION {[1..n -> TemplateLines] : n \in 0..MaxTemplateLines}}

InitRender ==
    /\ template \in Templates
    /\ cmd = CommandLine([project_name |-> <<"a", "-", "b">>, description |-> <<"A", " ", "t">>],
                         "setuptools")
    /\ fs = EmptyFs
    /\ fs0 = fs
    /\ layouts = 0
    /\ runs = 0
    /\ pc = "main"
    /\ runner = NoRunner
    /\ force = FALSE
    /\ no_git = FALSE
    /\ answer = <<>>
    /\ stage = 0
    /\ cwd = "cwd0"
    /\ log = <<>>
    /\ error = "none"
    /\ exit_status = NoStatus

NextRender ==
    \/ Main
    \/ Construct
    \/ Prompt
    \/ _1_create_project_dir
    \/ _2_write_readme
    \/ _2_create_src_dir
    \/ _2_copy_base_files
    \/ _2_init_git
    \/ _2_copy_pyproject_toml
    \/ _2_create_venv
    \/ _3_run_pip_install

SpecRender == InitRender /\ [][NextRender]_vars

(***************************************************************************)
(* Vocabulary of the properties.                                           *)
(***************************************************************************)
\* runner.run() has been called in the current invocation.
RunStarted == pc \in {"run", "exited"} /\ stage >= 1

Executed(name) == \E i \in 1..Len(log) : log[i].stage = name
Completed(name) ==
    \E i \in 1..Len(log) : log[i].stage = name /\ log[i].outcome # "raised"
LogStages == [i \in 1..Len(log) |-> log[i].stage]

BuildSystemStages ==
    {"_2_copy_pyproject_toml", "_2_create_venv", "_3_run_pip_install",
     "_3_init_poetry", "_4_update_pyproject_toml", "_4_sync_poetry"}
ManifestStages ==
    {"_2_copy_pyproject_toml", "_3_init_poetry", "_4_update_pyproject_toml"}
ProcessStages ==
    {"_2_init_git", "_2_create_venv", "_3_run_pip_install", "_3_init_poetry",
     "_4_sync_poetry"}
DirectoryStages == {"_1_create_project_dir", "_2_create_src_dir"}
FileWriteStages ==
    {"_2_write_readme", "_2_copy_base_files", "_2_copy_pyproject_toml",
     "_4_update_pyproject_toml"}

\* No external tool ended with a non-zero status and no template was missing.
ToolsSucceeded ==
    /\ error \notin {"CalledProcessError", "FileNotFoundError"}
    /\ \A i \in 1..Len(log) : log[i].outcome # "nonzero"

\* A stage of the run has failed: it raised, or its tool exited non-zero.
Failed(i) == log[i].outcome \in {"raised", "nonzero"}
RunFailed == \E i \in 1..Len(log) : Failed(i)

\* The path with its ".." components followed, acc being what is resolved so far.
RECURSIVE Resolve(_, _)
Resolve(parts, acc) ==
    IF parts = <<>> THEN acc
    ELSE IF Head(parts) = <<".", ".">>
    THEN Resolve(Tail(parts), IF Len(acc) > 1 THEN SubSeq(acc, 1, Len(acc) - 1) ELSE acc)
    ELSE Resolve(Tail(parts), Append(acc, Head(parts)))

EnvironmentStages == {"_2_create_venv", "_3_run_pip_install", "_4_sync_poetry"}

\* The answers that decline: "n" and "no", in either case.
IsDecline(a) == Lower(a) \in { <<"n">>, <<"n", "o">> }

\* A name that is non-empty and made of letters, digits, "-" and "_" only.
ValidName(s) == Len(s) >= 1 /\ \A i \in 1..Len(s) : s[i] \in NameClass

\* Every pre-existing entry has the kind the pipeline writes at its path.
Compatible(f) ==
    /\ ~is_dir(f, README)
    /\ ~is_dir(f, PYPROJECT)
    /\ f[SRC].kind # "file"
    /\ f[PKG].kind # "file"
    /\ f[VENV].kind # "file"
    /\ \A n \in StaticNames : ~is_dir(f, Inside(n))

\* The text with every placeholder replaced by the raw value, nothing else changed.
Placeholders == {"{{project_name}}", "{{description}}"}
RECURSIVE Substituted(_, _, _)
Substituted(text, name, description) ==
    IF text = <<>> THEN <<>>
    ELSE (IF Head(text) = "{{project_name}}" THEN name
          ELSE IF Head(text) = "{{description}}" THEN description
          ELSE <<Head(text)>>) \o Substituted(Tail(text), name, description)

\* What follows the variant's own content in a finished manifest.
BaseSuffix == <<"\n">> \o BaseTemplate
EndsWithBase(content) ==
    /\ Len(content) >= Len(BaseSuffix)
    /\ SubSeq(content, Len(content) - Len(BaseSuffix) + 1, Len(content)) = BaseSuffix
BeforeBase(content) == SubSeq(content, 1, Len(content) - Len(BaseSuffix))

\* The section-scoped reading of rendering: a line is rewritten iff it is a
\* name or description key line under the [project] header.
SectionHeaders == {"[project]", "[tool.x]", "[project.optional-dependencies]"}
InProjectSection(lines, i) ==
    \E j \in 1..(i - 1) :
        /\ lines[j][1] = "[project]"
        /\ \A k \in (j + 1)..(i - 1) : lines[k][1] \notin SectionHeaders
SectionScopedLine(lines, i, name, description) ==
    IF InProjectSection(lines, i) /\ lines[i][1] = "name = \""
    THEN <<"name = \"">> \o name \o <<"\"", "\n">>
    ELSE IF InProjectSection(lines, i) /\ lines[i][1] = "description = \""
    THEN <<"description = \"">> \o description \o <<"\"", "\n">>
    ELSE lines[i]

(***************************************************************************)
(* C1.  A run started while the root exists as a directory and force is    *)
(* false fails with the path-conflict error at _1_create_project_dir and   *)
(* changes nothing: the filesystem and the working directory are those of  *)
(* the start of the invocation, and no other stage has executed.           *)
(***************************************************************************)
C1_PathConflictChangesNothing ==
    (RunStarted /\ is_dir(fs0, ROOT) /\ ~force) =>
        /\ fs = fs0
        /\ cwd = "cwd0"
        /\ \/ pc = "run" /\ log = <<>>
           \/ /\ pc = "exited"
              /\ error = "ValueError: already exists"
              /\ exit_status = 1
              /\ log = <<Entry("_1_create_project_dir", "raised", "cwd0")>>

\* A second invocation, without force, on the root an earlier one left behind.
C1_Witness ==
    /\ pc = "exited"
    /\ runs = 2
    /\ ~force
    /\ error = "ValueError: already exists"
    /\ fs0[README] = File(ReadmeText(runner))
    /\ fs0[PYPROJECT].kind = "file"
    /\ fs = fs0

(***************************************************************************)
(* C2.  If a build-system sub-step fails, no later sub-step of that run    *)
(* executes: a stage of the build system whose process ended non-zero, or  *)
(* which raised, is the last stage of the log.                             *)
(***************************************************************************)
C2_FailedSubStepIsLast ==
    \A i \in 1..Len(log) :
        (log[i].stage \in BuildSystemStages /\ log[i].outcome # "ok") => i = Len(log)

(***************************************************************************)
(* C3.  An invocation ends with exit status 0 only if every stage it       *)
(* executed succeeded: no exception, and no external tool that ended with  *)
(* a non-zero status.                                                      *)
(***************************************************************************)
C3_ExitZeroOnlyIfAllSucceeded ==
    (pc = "exited" /\ exit_status = 0) =>
        /\ error = "none"
        /\ \A i \in 1..Len(log) : log[i].outcome = "ok"

(***************************************************************************)
(* C4.  As claimed: when git init is about to be invoked, every            *)
(* file-producing stage has completed, the manifest stage included, and    *)
(* pyproject.toml exists in the root.                                      *)
(***************************************************************************)
C4_GitInitAfterManifest ==
    AtStage("_2_init_git") =>
        /\ Completed("_2_write_readme")
        /\ Completed("_2_create_src_dir")
        /\ Completed("_2_copy_base_files")
        /\ \E s \in ManifestStages : Completed(s)
        /\ exists(fs, PYPROJECT)

(***************************************************************************)
(* C4, amended.  When git init is about to be invoked, the README, the     *)
(* source tree and the boilerplate files have been written by this run, in *)
(* that order, and no stage of the build system has executed yet; the      *)
(* manifest stages execute only after git init has returned.               *)
(***************************************************************************)
C4_GitInitAfterBaseFilesBeforeManifest ==
    /\ AtStage("_2_init_git") =>
        /\ LogStages = <<"_1_create_project_dir", "_2_write_readme",
                         "_2_create_src_dir", "_2_copy_base_files">>
        /\ \A i \in 1..Len(log) : log[i].outcome = "ok"
        /\ fs[README] = File(ReadmeText(runner))
        /\ exists(fs, MARKER)
        /\ \A i \in 1..Len(base_filenames(cmd.build_system)) :
              LET n == base_filenames(cmd.build_system)[i] IN
              fs[n] = File(SourceFile(n)) \/ fs[Inside(n)] = File(SourceFile(n))
    /\ \A i \in 1..Len(log) :
        (log[i].stage \in BuildSystemStages /\ ~no_git) =>
            \E j \in 1..(i - 1) :
                log[j].stage = "_2_init_git" /\ log[j].outcome = "ok"

\* git init is about to run in a root that holds no manifest yet.
C4_Witness ==
    /\ AtStage("_2_init_git")
    /\ ~exists(fs, PYPROJECT)
    /\ fs[README] = File(ReadmeText(runner))

(***************************************************************************)
(* C5.  A run started while the root exists and is not a directory fails   *)
(* with the not-a-directory error at _1_create_project_dir, with force and *)
(* without it, and no later stage executes.                                *)
(***************************************************************************)
C5_NotADirectoryIsFatal ==
    (RunStarted /\ fs0[ROOT].kind = "file") =>
        /\ fs = fs0
        /\ \/ pc = "run" /\ log = <<>>
           \/ /\ pc = "exited"
              /\ error = "ValueError: not a directory"
              /\ exit_status = 1
              /\ LogStages = <<"_1_create_project_dir">>

\* The forced run on a root that is a file has ended.
C5_Witness ==
    /\ pc = "exited"
    /\ force
    /\ fs0[ROOT].kind = "file"
    /\ error = "ValueError: not a directory"

(***************************************************************************)
(* C6.  As claimed: every directory-creation stage executes before every   *)
(* file-write stage of the run.                                            *)
(***************************************************************************)
C6_DirectoriesBeforeFiles ==
    \A i, j \in 1..Len(log) :
        (log[i].stage \in FileWriteStages /\ log[j].stage \in DirectoryStages) => j < i

(***************************************************************************)
(* C6, amended.  The root directory is created (or accepted) before any    *)
(* file-write stage starts, and the source tree is created before the      *)
(* boilerplate copy and the manifest write; the README, however, is        *)
(* written before the source tree is created.                              *)
(***************************************************************************)
C6_RootFirstReadmeBeforeSourceTree ==
    /\ \A i, j \in 1..Len(log) :
        /\ (log[i].stage \in FileWriteStages /\ log[j].stage = "_1_create_project_dir")
              => (j < i /\ log[j].outcome = "ok")
        /\ (log[i].stage \in FileWriteStages \ {"_2_write_readme"}
              /\ log[j].stage = "_2_create_src_dir") => (j < i /\ log[j].outcome = "ok")
        /\ (log[i].stage = "_2_write_readme" /\ log[j].stage = "_2_create_src_dir")
              => i < j
    /\ \A s \in FileWriteStages : AtStage(s) => is_dir(fs, ROOT)
    /\ \A s \in FileWriteStages \ {"_2_write_readme"} : AtStage(s) => is_dir(fs, PKG)
    /\ Executed("_2_create_src_dir") => Completed("_2_write_readme")

\* The README of this run is on disk and the source tree is not made yet.
C6_Witness ==
    /\ AtStage("_2_create_src_dir")
    /\ ~exists(fs0, README)
    /\ fs[README] = File(ReadmeText(runner))
    /\ ~exists(fs, SRC)

(***************************************************************************)
(* C7.  If the user declines at the prompt ("n", "N", "no"), the           *)
(* invocation has no side effects: no directory is created, no file is     *)
(* written (the filesystem stays as it was) and no process is launched.    *)
(***************************************************************************)
C7_DeclineHasNoSideEffects ==
    (pc \in {"run", "exited"} /\ answer # <<>> /\ IsDecline(answer)) =>
        /\ fs = fs0
        /\ \A i \in 1..Len(log) : log[i].stage \notin ProcessStages

(***************************************************************************)
(* C8.  As claimed: once _2_create_src_dir has run twice, the marker file  *)
(* is empty whatever it held between the two runs.                         *)
(***************************************************************************)
C8_SecondRunTruncatesMarker ==
    (layouts >= 2 /\ Completed("_2_create_src_dir") /\ fs0[MARKER].kind = "file")
        => fs[MARKER] = File(<<>>)

(***************************************************************************)
(* C8, amended.  A run of _2_create_src_dir on an existing                 *)
(* src/<pkg> directory, a second run in particular, does not fail, and     *)
(* leaves an existing marker file as it was: its content after the run is  *)
(* the content it held before, empty only if it was empty.                 *)
(***************************************************************************)
C8_SecondRunKeepsMarker ==
    /\ (Executed("_2_create_src_dir") /\ is_dir(fs0, PKG))
          => Completed("_2_create_src_dir")
    /\ (RunStarted /\ Completed("_2_create_src_dir"))
          => /\ is_dir(fs, SRC) /\ is_dir(fs, PKG)
             /\ fs[MARKER] = IF exists(fs0, MARKER) THEN fs0[MARKER] ELSE File(<<>>)

\* The stage has returned for the second time, on a marker the user wrote into.
C8_Witness ==
    /\ layouts = 2
    /\ RunStarted
    /\ Completed("_2_create_src_dir")
    /\ fs0[MARKER] = File(OldContent)
    /\ fs[MARKER] = File(OldContent)

(***************************************************************************)
(* C9.  As claimed: a forced run on an existing directory succeeds         *)
(* whatever the directory holds, when every external tool succeeds.        *)
(***************************************************************************)
C9_ForcedRunSucceeds ==
    (pc = "exited" /\ stage >= 1 /\ force /\ is_dir(fs0, ROOT) /\ ToolsSucceeded) =>
        (exit_status = 0 /\ error = "none")

(***************************************************************************)
(* C9, amended.  A forced run on an existing directory succeeds when every *)
(* external tool succeeds and the pre-existing entries have the kind the   *)
(* pipeline writes: README.md and pyproject.toml are not directories, src, *)
(* src/<pkg> and .venv are not files, and no boilerplate name is a         *)
(* directory holding a directory of the same name.                         *)
(***************************************************************************)
C9_ForcedRunSucceedsOnCompatibleContent ==
    (pc = "exited" /\ stage >= 1 /\ force /\ is_dir(fs0, ROOT) /\ ToolsSucceeded
        /\ Compatible(fs0)) =>
        /\ exit_status = 0
        /\ error = "none"
        /\ LogStages = Stages

\* A forced run over a root that held the user's own README.md has succeeded.
C9_Witness ==
    /\ pc = "exited"
    /\ stage >= 1
    /\ force
    /\ fs0[README] = File(OldContent)
    /\ exit_status = 0
    /\ fs[README] = File(ReadmeText(runner))

(***************************************************************************)
(* C10.  The constructor accepts a name iff the name is non-empty and made *)
(* of ASCII letters, digits, hyphens and underscores only.                 *)
(***************************************************************************)
C10_AcceptsExactlyValidNames ==
    /\ runner # NoRunner => ValidName(cmd.project_name)
    /\ error = "ValueError: project name" => ~ValidName(cmd.project_name)

(***************************************************************************)
(* C11.  For every invalid project name the invocation fails in the        *)
(* constructor, before the prompt and before any stage: the filesystem is  *)
(* untouched, nothing is launched and the exit status is non-zero.         *)
(***************************************************************************)
C11_InvalidNameFailsBeforePrompt ==
    (~ValidName(cmd.project_name) /\ pc \in {"prompt", "run", "exited"}) =>
        /\ pc = "exited"
        /\ error = "ValueError: project name"
        /\ exit_status = 1
        /\ answer = <<>>
        /\ log = <<>>
        /\ fs = fs0

(***************************************************************************)
(* C12.  A Setuptools run with a valid name, a confirmed prompt, a root    *)
(* that does not exist and tools that all succeed ends with exit status 0, *)
(* and leaves src/<normalizedName>/ with its empty marker (normalizedName  *)
(* is the name with every "-" replaced by "_"), README.md holding          *)
(* "# <name>" followed by a newline and the description when there is one, *)
(* the static files, pyproject.toml and the .venv directory.               *)
(***************************************************************************)
C12_SetuptoolsFreshRunLeavesProject ==
    (pc = "exited" /\ stage >= 1 /\ cmd.build_system = "setuptools"
        /\ ValidName(cmd.project_name) /\ ~exists(fs0, ROOT) /\ ToolsSucceeded) =>
        /\ exit_status = 0
        /\ error = "none"
        /\ LogStages = Stages
        /\ is_dir(fs, ROOT) /\ is_dir(fs, SRC) /\ is_dir(fs, PKG)
        /\ fs[MARKER] = File(<<>>)
        /\ Len(runner.project_name_camelcase) = Len(cmd.project_name)
        /\ \A i \in 1..Len(cmd.project_name) :
              runner.project_name_camelcase[i] =
                  IF cmd.project_name[i] = "-" THEN "_" ELSE cmd.project_name[i]
        /\ fs[README] =
              File(<<"#", " ">> \o cmd.project_name
                     \o (IF cmd.description = <<>> THEN <<>>
                         ELSE <<"\n">> \o cmd.description))
        /\ \A i \in 1..Len(RunnerBaseFilenames) :
              fs[RunnerBaseFilenames[i]] = File(SourceFile(RunnerBaseFilenames[i]))
        /\ fs[PYPROJECT].kind = "file"
        /\ fs[VENV] = Dir

\* The Setuptools run of a project with a hyphen in its name and a description
\* has ended successfully on a root that did not exist.
C12_Witness ==
    /\ pc = "exited"
    /\ exit_status = 0
    /\ cmd.build_system = "setuptools"
    /\ cmd.project_name = <<"a", "-", "b">>
    /\ runner.project_name_camelcase = <<"a", "_", "b">>
    /\ ~exists(fs0, ROOT)
    /\ fs[README] = File(<<"#", " ", "a", "-", "b", "\n", "A", " ", "t">>)
    /\ fs[VENV] = Dir

(***************************************************************************)
(* C13.  git init is invoked in a run iff no_git is false and the four     *)
(* stages before it succeeded; with no_git set no git process is launched  *)
(* and .git is left as it was; a failing git init ends the run, so that no *)
(* later stage executes.                                                   *)
(***************************************************************************)
C13_GitInitIffEnabled ==
    /\ Executed("_2_init_git") =>
          /\ ~no_git
          /\ Len(log) >= 5 /\ log[5].stage = "_2_init_git"
          /\ \A i \in 1..4 : log[i].outcome = "ok"
    /\ (~no_git /\ Len(log) >= 5) => log[5].stage = "_2_init_git"
    /\ (~no_git /\ pc = "exited" /\ stage >= 1 /\ Len(log) <= 4)
          => log[Len(log)].outcome = "raised"
    /\ (no_git /\ RunStarted) => (~Executed("_2_init_git") /\ fs[GIT] = fs0[GIT])
    /\ \A i \in 1..Len(log) :
          (log[i].stage = "_2_init_git" /\ log[i].outcome # "ok") =>
              /\ i = Len(log)
              /\ pc # "run"
              /\ exit_status = 1
              /\ error = "CalledProcessError"

\* git init has failed and the run has ended there.
C13_Witness ==
    /\ pc = "exited"
    /\ ~no_git
    /\ Len(log) = 5
    /\ log[5].stage = "_2_init_git"
    /\ log[5].outcome = "raised"
    /\ ~exists(fs, PYPROJECT)

(***************************************************************************)
(* C14.  Manifest rendering rewrites only the name and description key     *)
(* lines inside the [project] section, by the value in quotes; every other *)
(* line of the template, the same keys under other sections included, is   *)
(* written identical and in the same order.                                *)
(***************************************************************************)
C14_SectionScopedKeyRewrite ==
    Completed("_2_copy_pyproject_toml") =>
        LET tl == SplitLines(template)
            ol == SplitLines(BeforeBase(fs[PYPROJECT].content))
        IN  /\ Len(ol) = Len(tl)
            /\ \A i \in 1..Len(tl) :
                  ol[i] = SectionScopedLine(tl, i, cmd.project_name, cmd.description)

(***************************************************************************)
(* C14, as the code has it.  Rendering writes the template line by line in *)
(* order, each line with every {{project_name}} and {{description}} on it  *)
(* replaced by the raw name and description, whatever section or key the   *)
(* line belongs to; a line without a placeholder, a name or description    *)
(* key line included, is written identical.                                *)
(***************************************************************************)
C14_PlaceholdersOnEveryLine ==
    Completed("_2_copy_pyproject_toml") =>
        LET tl == SplitLines(template)
            ol == SplitLines(BeforeBase(fs[PYPROJECT].content))
        IN  /\ Len(ol) = Len(tl)
            /\ \A i \in 1..Len(tl) :
                  /\ ol[i] = Substituted(tl[i], cmd.project_name, cmd.description)
                  /\ (\A j \in 1..Len(tl[i]) : tl[i][j] \notin Placeholders) => ol[i] = tl[i]

\* A template with a placeholder outside [project] and a key line without one
\* has been rendered: the first is filled in, the second is left as it was.
C14_Witness ==
    /\ Completed("_2_copy_pyproject_toml")
    /\ template = <<"url = \"", "{{project_name}}", "/", "{{description}}", "\"", "\n",
                    "name = \"", "x", "\"", "\n">>
    /\ BeforeBase(fs[PYPROJECT].content) =
          <<"url = \"", "a", "-", "b", "/", "A", " ", "t", "\"", "\n",
            "name = \"", "x", "\"", "\n">>

(***************************************************************************)
(* C15.  In both variants pyproject.toml is completely written, the        *)
(* appended base template included, before any environment or dependency   *)
(* stage starts: when venv creation, pip install or poetry sync is about   *)
(* to run or has run, the variant's last manifest stage has returned, the  *)
(* manifest is a file ending with the base template, and no manifest stage *)
(* executes after an environment stage.                                    *)
(***************************************************************************)
C15_ManifestBeforeEnvironment ==
    /\ \A name \in EnvironmentStages :
          (AtStage(name) \/ Executed(name)) =>
              /\ Completed(IF runner.class = "PoetryRunner"
                           THEN "_4_update_pyproject_toml"
                           ELSE "_2_copy_pyproject_toml")
              /\ fs[PYPROJECT].kind = "file"
              /\ EndsWithBase(fs[PYPROJECT].content)
    /\ \A i, j \in 1..Len(log) :
          (i < j /\ log[i].stage \in EnvironmentStages) => log[j].stage \notin ManifestStages

\* poetry sync is about to start on a manifest that holds what poetry init
\* generated, followed by the base template.
C15_Witness ==
    /\ AtStage("_4_sync_poetry")
    /\ ~exists(fs0, PYPROJECT)
    /\ fs[PYPROJECT] = File(PoetryGenerated(runner) \o <<"\n">> \o BaseTemplate)

(***************************************************************************)
(* C16.  In both variants the base template is appended after the          *)
(* variant's own manifest content without altering it.  Setuptools: the    *)
(* manifest is the template with every {{project_name}} and                *)
(* {{description}} substituted and all other text unchanged, followed by   *)
(* the base template.  Poetry: what the manifest held when the append      *)
(* started, the content generated by poetry init included, is kept         *)
(* unchanged as a prefix and the base template follows it.                 *)
(***************************************************************************)
C16_BaseTemplateAppended ==
    /\ Completed("_2_copy_pyproject_toml") =>
          fs[PYPROJECT] =
              File(Substituted(template, cmd.project_name, cmd.description)
                     \o <<"\n">> \o BaseTemplate)
    /\ Completed("_4_update_pyproject_toml") =>
          LET before == IF exists(fs0, PYPROJECT) THEN fs0[PYPROJECT].content ELSE <<>>
              generated ==
                  IF \E i \in 1..Len(log) :
                        log[i].stage = "_3_init_poetry" /\ log[i].outcome = "ok"
                  THEN PoetryGenerated(runner) ELSE <<>>
          IN fs[PYPROJECT] = File(before \o generated \o <<"\n">> \o BaseTemplate)

\* A Poetry run has ended on a manifest made of what poetry init generated and
\* the base template after it.
C16_Witness ==
    /\ pc = "exited"
    /\ runner.class = "PoetryRunner"
    /\ Completed("_3_init_poetry")
    /\ Completed("_4_update_pyproject_toml")
    /\ fs[PYPROJECT].content =
          <<"[tool.poetry]", "name = ", "a", "-", "b", "description = ", "A", " ", "t",
            "\n", "[tool.pylint]", "\n", "[tool.isort]", "\n">>

(***************************************************************************)
(* C17.  Whenever a stage launches an external process or the environment  *)
(* creation (git init, venv creation, pip install, poetry init, poetry     *)
(* sync), the working directory is the root and that same stage has set    *)
(* it; the other stages leave the working directory as they found it.      *)
(***************************************************************************)
C17_LaunchInRootSetByStage ==
    \A i \in 1..Len(log) :
        LET found == IF i = 1 THEN "cwd0" ELSE log[i - 1].cwd IN
        IF log[i].stage \in ProcessStages
        THEN log[i].chdir /\ log[i].cwd = ROOT
        ELSE ~log[i].chdir /\ log[i].cwd = found

\* With git init skipped, venv creation is the first stage to launch anything:
\* it found the working directory of the invocation and ran in the root.
C17_Witness ==
    /\ no_git
    /\ Len(log) >= 6
    /\ log[6].stage = "_2_create_venv"
    /\ log[5].cwd = "cwd0"
    /\ log[6].chdir
    /\ log[6].cwd = ROOT

(***************************************************************************)
(* C18.  When a stage fails the pipeline performs no compensating action:  *)
(* once the invocation has ended, everything the stages completed before   *)
(* the failure produced is still on disk as they left it (after a failed   *)
(* pip install: the root directory, README, source tree, static files,     *)
(* manifest and .venv).                                                    *)
(***************************************************************************)
C18_NoRollbackAfterFailure ==
    (pc = "exited" /\ RunFailed) =>
        /\ Completed("_1_create_project_dir") => is_dir(fs, ROOT)
        /\ Completed("_2_write_readme") =>
              fs[README] =
                  File(<<"#", " ">> \o cmd.project_name
                         \o (IF cmd.description = <<>> THEN <<>>
                             ELSE <<"\n">> \o cmd.description))
        /\ Completed("_2_create_src_dir") =>
              is_dir(fs, SRC) /\ is_dir(fs, PKG) /\ exists(fs, MARKER)
        /\ Completed("_2_copy_base_files") =>
              \A i \in 1..Len(base_filenames(cmd.build_system)) :
                  LET n == base_filenames(cmd.build_system)[i] IN
                  fs[IF is_dir(fs0, n) THEN Inside(n) ELSE n] = File(SourceFile(n))
        /\ Completed("_2_init_git") => is_dir(fs, GIT)
        /\ Completed("_2_copy_pyproject_toml") =>
              fs[PYPROJECT].kind = "file" /\ EndsWithBase(fs[PYPROJECT].content)
        /\ Completed("_2_create_venv") => fs[VENV] = Dir
        /\ Completed("_4_update_pyproject_toml") =>
              fs[PYPROJECT].kind = "file" /\ EndsWithBase(fs[PYPROJECT].content)
        /\ \A p \in Paths : exists(fs0, p) => exists(fs, p)

\* pip install has failed on a fresh root: the invocation has ended with
\* status 1 and the virtual environment is still there.
C18_Witness ==
    /\ pc = "exited"
    /\ exit_status = 1
    /\ ~exists(fs0, ROOT)
    /\ Len(log) >= 1
    /\ log[Len(log)].stage = "_3_run_pip_install"
    /\ log[Len(log)].outcome = "raised"
    /\ fs[VENV] = Dir
    /\ is_dir(fs, PKG)
    /\ fs[PYPROJECT].kind = "file"

(***************************************************************************)
(* C19.  A forced re-run is idempotent on the manifest: after a successful *)
(* run, a second run with force set and the same project leaves            *)
(* pyproject.toml with the base template exactly once, equal to what the   *)
(* first run left, also when poetry init refuses to run because the        *)
(* manifest exists.                                                        *)
(***************************************************************************)
C19_ForcedRerunKeepsManifest ==
    (/\ pc = "exited" /\ exit_status = 0 /\ force /\ runs = 2
     /\ is_dir(fs0, PKG) /\ is_dir(fs0, GIT)
     /\ fs0[PYPROJECT] =
           File((IF runner.class = "PoetryRunner"
                 THEN PoetryGenerated(runner)
                 ELSE Substituted(template, cmd.project_name, cmd.description))
                  \o <<"\n">> \o BaseTemplate))
        => fs[PYPROJECT] = fs0[PYPROJECT]

(***************************************************************************)
(* C20.  Path containment: for every accepted project name the root is the *)
(* directory of that name directly under the working directory, and        *)
(* src/<normalizedName> resolves to the directory named normalizedName     *)
(* directly under <root>/src: the name contributes exactly one component,  *)
(* never an absolute path, a separator or "..".                            *)
(***************************************************************************)
C20_PackagePathBeneathRootSrc ==
    runner # NoRunner =>
        LET root == Resolve(runner.project_root_path, <<>>)
            pkg == Resolve(runner.project_python_path, <<>>)
        IN  /\ root = Cwd \o <<runner.project_name>>
            /\ pkg = root \o <<<<"s", "r", "c">>, runner.project_name_camelcase>>
            /\ \A i \in 1..Len(runner.project_name_camelcase) :
                  runner.project_name_camelcase[i] # "/"
            /\ runner.project_name_camelcase \notin { <<".">>, <<".", ".">> }

\* A name with a hyphen and a trailing newline has been accepted: its package
\* directory is one component under <root>/src.
C20_Witness ==
    /\ pc = "prompt"
    /\ cmd.project_name = <<"a", "-", "\n">>
    /\ runner.project_python_path =
          <<Anchor, <<"w">>, <<"a", "-", "\n">>, <<"s", "r", "c">>, <<"a", "_", "\n">>>>

====
